---- MODULE Spec2Model ----
(***************************************************************************)
(* A model of architecture.py: TemporalCNN, SelfAttention and LSTMModel.   *)
(*                                                                         *)
(* Spec      - the model object and its caller: train()/eval() switches    *)
(*             and LSTMModel.forward executed statement by statement, on   *)
(*             tensors described by shape, storage and a symbolic value    *)
(*             (the operations applied so far, the normalization           *)
(*             statistics used, and the input samples each output sample   *)
(*             depends on).                                                *)
(* SpecAttn  - SelfAttention.forward on small integer tensors, computed in *)
(*             exact arithmetic.                                           *)
(***************************************************************************)
EXTENDS Integers, Sequences, FiniteSets, TLC

\* ------------------------------------------------------------- bounds
MaxB == 2
MaxT == 8
MaxC == 4
MaxInputSize == 1
MaxOutputSize == 1
NumData == 2
MaxTracked == 1
MaxAttnB == 2
MaxAttnT == 2
SqrtFeatures == 2
ExpRoot == 2

\* ------------------------------------------------- program constants
Conv1Out == 64
Conv2Out == 128
KernelSize == 3
ConvStride == 1
ConvPadding == 1
PoolKernel == 2
PoolStride == 2
LstmInputDim == 128
LstmHiddenDim == 128
NumLstmLayers == 3
BidirLstm == TRUE

VARIABLES
    cfg,          \* LSTMModel.__init__ arguments: input_size, output_size
    training,     \* nn.Module.training of the model and all its children
    bn,           \* the two BatchNorm1d layers' buffers
    pc,           \* the statement of forward about to run; "done" when the call
                  \* has ended and the caller holds its outcome; "idle" otherwise
    arg,          \* the tensor the caller passed to forward (the caller keeps it)
    arg0,         \* value of the caller's tensor when forward was entered
    x,            \* forward's local x
    loc,          \* forward's other locals
    heap,         \* tensor storages: heap[sid + 1] is the value stored under sid
    outcome,      \* how the last call ended: "none", "returned" or "raised"
    err,          \* the exception that ended the last call
    result,       \* the object the last call returned
    trace,        \* stages the current (or last) call has run, in order
    entry,        \* the BatchNorm buffers when the current (or last) call was entered
    memo,         \* what evaluation-mode calls returned for Probe since a
                  \* training-mode call last could change the buffers
    sa            \* a SelfAttention module called on its own: its parameters,
                  \* the statement about to run and forward's locals, as numbers

modelVars == <<cfg, training, bn, pc, arg, arg0, x, loc, heap, outcome, err,
               result, trace, entry, memo>>
vars == <<modelVars, sa>>

\* ------------------------------------------------------------ tensors
\* A tensor is a shape over a storage; a view shares the storage of its base.
NoTensor == [shape |-> <<>>, sid |-> -1]
Tensor(shape, sid) == [shape |-> shape, sid |-> sid]

\* One applied operation; stat is the normalization statistics it used
\* (empty for every other operation) and batch tells batch statistics from
\* running ones.
Op(name) == [op |-> name, stat |-> <<>>, batch |-> FALSE]
BnOp(name, stat, batch) == [op |-> name, stat |-> stat, batch |-> batch]

\* The value of a storage: the input data it was computed from, the
\* operations applied, and for each sample the input samples it depends on.
NoValue == [data |-> 0, ops |-> <<>>, deps |-> <<>>]
InputValue(d, b) == [data |-> d, ops |-> <<>>, deps |-> [i \in 1..b |-> {i}]]
Apply(v, o) == [v EXCEPT !.ops = Append(@, o)]

ValueOf(t) == heap[t.sid + 1]
NewSid == Len(heap)

\* No SelfAttention call of its own is in progress.
NoAttention == [pc |-> "none"]

\* value: what the first such call on Probe returned; others: a call on
\* another input has returned since.
NoMemo == [value |-> NoValue, others |-> FALSE]

NoLocals ==
    [cnn_in |-> NoTensor, outputs |-> NoTensor, final_hidden |-> NoTensor,
     final_cell |-> NoTensor, attn_in |-> NoTensor, key_vecs |-> NoTensor,
     query_vecs |-> NoTensor, value_vecs |-> NoTensor, attn_scores |-> NoTensor,
     attn_weights |-> NoTensor, attn_out |-> NoTensor]

\* Faulty variant: the axis swap left out.
PermuteNone(t) == t

\* torch.Tensor.permute(0, 2, 1): a view with the last two axes swapped.
Permute021(t) == Tensor(<<t.shape[1], t.shape[3], t.shape[2]>>, t.sid)

\* ------------------------------------------------------- layer shapes
\* Faulty variants: a convolution without padding; a convolution that takes any
\* channel count.
ConvOutLenNoPad(l) == (l - KernelSize) \div ConvStride + 1
ConvAcceptsAny(t, inChannels) == TRUE

\* nn.Conv1d output length; the channel axis must match in_channels and the
\* padded input must be at least as long as the kernel.
ConvOutLen(l) == (l + 2 * ConvPadding - KernelSize) \div ConvStride + 1
ConvAccepts(t, inChannels) ==
    /\ t.shape[2] = inChannels
    /\ t.shape[3] + 2 * ConvPadding >= KernelSize

\* Faulty variant: ceil_mode=True.
PoolOutLenCeil(l) == (l - PoolKernel + PoolStride - 1) \div PoolStride + 1

\* nn.MaxPool1d output length (ceil_mode=False, no padding); a computed
\* output length below 1 is rejected.
PoolOutLen(l) == (l - PoolKernel) \div PoolStride + 1
PoolAccepts(t) == PoolOutLen(t.shape[3]) >= 1

\* nn.BatchNorm1d in training mode wants more than one value per channel.
BnValuesPerChannel(t) == t.shape[1] * t.shape[3]

LstmOutputDim == IF BidirLstm THEN LstmHiddenDim * 2 ELSE LstmHiddenDim
LstmDirections == IF BidirLstm THEN 2 ELSE 1

\* ---------------------------------------------------------- BatchNorm
\* Buffers of one BatchNorm1d: num_batches_tracked and the running
\* mean/variance, kept as the sequence of batches folded into them.
BnFresh == [tracked |-> 0, running |-> <<>>]

\* Whether this forward of a BatchNorm1d layer uses and records batch statistics.
BnUsesBatchStats == training

\* Faulty variants: running statistics never recorded; recorded in evaluation mode
\* too; batch statistics mixing the samples in evaluation mode too.
BnUpdatedNever(b, d) == b
BnUpdatedAlways(b, d) == [tracked |-> b.tracked + 1, running |-> Append(b.running, d)]
BnDepsBatch(deps) == [i \in DOMAIN deps |-> UNION {deps[j] : j \in DOMAIN deps}]

BnTracked(b) == IF BnUsesBatchStats THEN [b EXCEPT !.tracked = @ + 1] ELSE b
BnUpdated(b, d) ==
    IF BnUsesBatchStats
    THEN [tracked |-> b.tracked + 1, running |-> Append(b.running, d)]
    ELSE b
BnStat(b, d) == IF BnUsesBatchStats THEN <<d>> ELSE b.running
\* With batch statistics every sample's output depends on every sample.
BnDeps(deps) ==
    IF BnUsesBatchStats
    THEN [i \in DOMAIN deps |-> UNION {deps[j] : j \in DOMAIN deps}]
    ELSE deps

\* -------------------------------------------------------------- steps
Raise(e) ==
    /\ pc' = "done"
    /\ outcome' = "raised"
    /\ err' = e
    /\ result' = NoTensor

Goto(next) ==
    /\ pc' = next
    /\ UNCHANGED <<outcome, err, result>>

Ran(stage) == trace' = Append(trace, stage)

\* Faulty variant: every layer writes its result over its operand.
OutSidOperand(t) == t.sid

\* The storage a layer writes its result to: every layer that is not
\* in place allocates a new one.
OutSid(t) == NewSid

\* heap after storing v under sid (a new storage when sid = NewSid)
Store(sid, v) ==
    IF sid = NewSid THEN Append(heap, v) ELSE [heap EXCEPT ![sid + 1] = v]

\* x = layer(x) for a layer that is not in place
FreshX(shape, v) ==
    /\ x' = Tensor(shape, OutSid(x))
    /\ heap' = Store(OutSid(x), v)

InitModel ==
    /\ cfg \in [input_size : 1..MaxInputSize, output_size : 1..MaxOutputSize]
    /\ training = TRUE
    /\ bn = <<BnFresh, BnFresh>>
    /\ pc = "idle"
    /\ arg = NoTensor
    /\ arg0 = NoValue
    /\ x = NoTensor
    /\ loc = NoLocals
    /\ heap = <<>>
    /\ outcome = "none"
    /\ err = ""
    /\ result = NoTensor
    /\ trace = <<>>
    /\ entry = bn
    /\ memo = NoMemo

Init ==
    /\ InitModel
    /\ sa = NoAttention

\* nn.Module.train(mode): sets training on the model and every child.
SetMode(m) ==
    /\ pc = "idle"
    /\ training' = m
    /\ UNCHANGED <<cfg, bn, pc, arg, arg0, x, loc, heap, outcome, err, result,
                   trace, entry, memo, sa>>

\* The caller builds a tensor and calls model(x).
Call ==
    /\ pc = "idle"
    /\ \E b \in 1..MaxB, t \in 1..MaxT, c \in 1..MaxC, d \in 1..NumData :
          /\ arg' = Tensor(<<b, t, c>>, 0)
          /\ arg0' = InputValue(d, b)
          /\ heap' = <<InputValue(d, b)>>
    /\ training => bn[1].tracked < MaxTracked
    /\ x' = arg'
    /\ loc' = NoLocals
    /\ outcome' = "none"
    /\ err' = ""
    /\ result' = NoTensor
    /\ trace' = <<>>
    /\ entry' = bn
    /\ memo' = IF training THEN NoMemo ELSE memo
    /\ pc' = "permute_in"
    /\ UNCHANGED <<cfg, training, bn, sa>>

\* line 126: x = x.permute(0, 2, 1)
PermuteIn ==
    /\ pc = "permute_in"
    /\ x' = Permute021(x)
    /\ Ran("permute")
    /\ Goto("conv1")
    /\ UNCHANGED <<cfg, training, bn, arg, arg0, loc, heap, entry, memo, sa>>

\* lines 22, 27: nn.Conv1d(kernel_size=3, stride=1, padding=1)
Conv(here, next, name, inChannels, outChannels) ==
    /\ pc = here
    /\ IF ConvAccepts(x, inChannels)
       THEN /\ FreshX(<<x.shape[1], outChannels, ConvOutLen(x.shape[3])>>,
                      Apply(ValueOf(x), Op(name)))
            /\ Goto(next)
       ELSE /\ Raise("RuntimeError: expected input to have in_channels channels")
            /\ UNCHANGED <<x, heap>>
    /\ UNCHANGED <<cfg, training, bn, arg, arg0, entry, memo, sa>>

\* line 127 enters TemporalCNN.forward, whose line 34 runs the layers in turn
Conv1 ==
    /\ Conv("conv1", "bn1", "conv1", cfg.input_size, Conv1Out)
    /\ Ran("conv_layer")
    /\ loc' = [loc EXCEPT !.cnn_in = x]

Conv2 ==
    /\ Conv("conv2", "bn2", "conv2", Conv1Out, Conv2Out)
    /\ UNCHANGED <<trace, loc>>

\* lines 23, 28: nn.BatchNorm1d. num_batches_tracked is advanced before the
\* batch is examined; a training batch with one value per channel is refused.
BatchNorm(here, next, name, k) ==
    /\ pc = here
    /\ LET v == ValueOf(x) IN
       IF training /\ BnValuesPerChannel(x) = 1
       THEN /\ bn' = [bn EXCEPT ![k] = BnTracked(@)]
            /\ Raise("ValueError: expected more than 1 value per channel when training")
            /\ UNCHANGED <<x, heap>>
       ELSE /\ bn' = [bn EXCEPT ![k] = BnUpdated(@, v.data)]
            /\ FreshX(x.shape,
                      [Apply(v, BnOp(name, BnStat(bn[k], v.data), BnUsesBatchStats))
                         EXCEPT !.deps = BnDeps(@)])
            /\ Goto(next)
    /\ UNCHANGED <<cfg, training, arg, arg0, loc, trace, entry, memo, sa>>

\* lines 24, 29: nn.ReLU(inplace=True) overwrites the storage of its operand
Relu(here, next, name) ==
    /\ pc = here
    /\ heap' = [heap EXCEPT ![x.sid + 1] = Apply(@, Op(name))]
    /\ Goto(next)
    /\ UNCHANGED <<cfg, training, bn, arg, arg0, x, loc, trace, entry, memo, sa>>

\* lines 25, 30: nn.MaxPool1d(kernel_size=2, stride=2)
MaxPool(here, next, name) ==
    /\ pc = here
    /\ IF PoolAccepts(x)
       THEN /\ FreshX(<<x.shape[1], x.shape[2], PoolOutLen(x.shape[3])>>,
                      Apply(ValueOf(x), Op(name)))
            /\ Goto(next)
       ELSE /\ Raise("RuntimeError: max_pool1d() invalid computed output size")
            /\ UNCHANGED <<x, heap>>
    /\ UNCHANGED <<cfg, training, bn, arg, arg0, loc, trace, entry, memo, sa>>

\* line 128: x = x.permute(0, 2, 1)
PermuteOut ==
    /\ pc = "permute_out"
    /\ x' = Permute021(x)
    /\ Ran("permute")
    /\ Goto("lstm")
    /\ UNCHANGED <<cfg, training, bn, arg, arg0, loc, heap, entry, memo, sa>>

\* line 130: outputs, (final_hidden, final_cell) = self.lstm_layer(x)
\* nn.LSTM(batch_first=True): [B, T, input] -> [B, T, directions * hidden]
Lstm ==
    /\ pc = "lstm"
    /\ Ran("lstm_layer")
    /\ IF x.shape[3] = LstmInputDim
       THEN LET b == x.shape[1]
                v == Apply(ValueOf(x), Op("lstm_layer"))
                h == <<NumLstmLayers * LstmDirections, b, LstmHiddenDim>>
            IN  /\ loc' = [loc EXCEPT
                              !.outputs = Tensor(<<b, x.shape[2], LstmOutputDim>>, NewSid),
                              !.final_hidden = Tensor(h, NewSid + 1),
                              !.final_cell = Tensor(h, NewSid + 2)]
                /\ heap' = heap \o <<v, Apply(v, Op("final_hidden")),
                                     Apply(v, Op("final_cell"))>>
                /\ Goto("attn_key")
       ELSE /\ Raise("RuntimeError: input.size(-1) must be equal to input_size")
            /\ UNCHANGED <<loc, heap>>
    /\ UNCHANGED <<cfg, training, bn, arg, arg0, x, entry, memo, sa>>

\* lines 48-50: the three nn.Linear(num_features, num_features)
AttnFeatures == LstmOutputDim

\* lines 55-57: key_vecs / query_vecs / value_vecs = nn.Linear(x)
AttnLinear(here, next, name) ==
    /\ pc = here
    /\ LET xin == IF here = "attn_key" THEN loc.outputs ELSE loc.attn_in IN
       IF xin.shape[3] = AttnFeatures
       THEN /\ loc' = [loc EXCEPT !.attn_in = xin,
                                  ![name] = Tensor(xin.shape, OutSid(xin))]
            /\ heap' = Store(OutSid(xin), Apply(ValueOf(xin), Op(name)))
            /\ Goto(next)
       ELSE /\ Raise("RuntimeError: mat1 and mat2 shapes cannot be multiplied")
            /\ UNCHANGED <<loc, heap>>
    /\ UNCHANGED <<cfg, training, bn, arg, arg0, x, entry, memo, sa>>

\* line 132 enters SelfAttention.forward; line 55
AttnKey ==
    /\ AttnLinear("attn_key", "attn_query", "key_vecs")
    /\ Ran("attention")

\* line 56
AttnQuery ==
    /\ AttnLinear("attn_query", "attn_value", "query_vecs")
    /\ UNCHANGED trace

\* line 57
AttnValue ==
    /\ AttnLinear("attn_value", "attn_scores", "value_vecs")
    /\ UNCHANGED trace

\* torch.matmul of [B, n, k] with [B, k, m]
MatmulShape(s1, s2) == <<s1[1], s1[2], s2[3]>>
MatmulAccepts(s1, s2) == s1[1] = s2[1] /\ s1[3] = s2[2]

\* line 60: attn_scores = torch.matmul(query_vecs, key_vecs.permute(0, 2, 1))
AttnScores ==
    /\ pc = "attn_scores"
    /\ LET kt == Permute021(loc.key_vecs) IN
       /\ MatmulAccepts(loc.query_vecs.shape, kt.shape)
       /\ loc' = [loc EXCEPT !.attn_scores =
                       Tensor(MatmulShape(loc.query_vecs.shape, kt.shape),
                              OutSid(loc.query_vecs))]
       /\ heap' = Store(OutSid(loc.query_vecs),
                        Apply(ValueOf(loc.query_vecs), Op("matmul_query_key")))
    /\ Goto("attn_scale")
    /\ UNCHANGED <<cfg, training, bn, arg, arg0, x, trace, entry, memo, sa>>

\* The tensor line 61 divides in place.
ScaledInPlace == loc.attn_scores

\* line 61: attn_scores /= math.sqrt(float(self.num_features))
AttnScale ==
    /\ pc = "attn_scale"
    /\ heap' = [heap EXCEPT ![ScaledInPlace.sid + 1] = Apply(@, Op("div_sqrt_features"))]
    /\ Goto("attn_softmax")
    /\ UNCHANGED <<cfg, training, bn, arg, arg0, x, loc, trace, entry, memo, sa>>

\* line 64: attn_weights = nn.functional.softmax(attn_scores, dim=-1)
AttnSoftmax ==
    /\ pc = "attn_softmax"
    /\ loc' = [loc EXCEPT !.attn_weights =
                    Tensor(loc.attn_scores.shape, OutSid(loc.attn_scores))]
    /\ heap' = Store(OutSid(loc.attn_scores),
                     Apply(ValueOf(loc.attn_scores), Op("softmax")))
    /\ Goto("attn_out")
    /\ UNCHANGED <<cfg, training, bn, arg, arg0, x, trace, entry, memo, sa>>

\* line 66: outputs = torch.matmul(attn_weights, value_vecs); line 68 returns
\* (outputs, attn_weights), which line 132 binds to outputs, attn_weights
AttnOut ==
    /\ pc = "attn_out"
    /\ MatmulAccepts(loc.attn_weights.shape, loc.value_vecs.shape)
    /\ LET t == Tensor(MatmulShape(loc.attn_weights.shape, loc.value_vecs.shape),
                       OutSid(loc.attn_weights))
       IN  loc' = [loc EXCEPT !.attn_out = t, !.outputs = t]
    /\ heap' = Store(OutSid(loc.attn_weights),
                     Apply(ValueOf(loc.attn_weights), Op("matmul_weights_value")))
    /\ Goto("linear")
    /\ UNCHANGED <<cfg, training, bn, arg, arg0, x, trace, entry, memo, sa>>

\* line 134: outputs = self.linear_layer(outputs)
Linear ==
    /\ pc = "linear"
    /\ Ran("linear_layer")
    /\ IF loc.outputs.shape[3] = LstmOutputDim
       THEN /\ loc' = [loc EXCEPT !.outputs =
                            Tensor(<<loc.outputs.shape[1], loc.outputs.shape[2],
                                     cfg.output_size>>, OutSid(loc.outputs))]
            /\ heap' = Store(OutSid(loc.outputs),
                             Apply(ValueOf(loc.outputs), Op("linear_layer")))
            /\ Goto("return")
       ELSE /\ Raise("RuntimeError: mat1 and mat2 shapes cannot be multiplied")
            /\ UNCHANGED <<loc, heap>>
    /\ UNCHANGED <<cfg, training, bn, arg, arg0, x, entry, memo, sa>>

\* Faulty variant: the attention output returned without the projection.
ReturnedAttn == loc.attn_out

\* The object line 139 returns.
Returned == loc.outputs

\* An input the caller evaluates repeatedly.
Probe == [shape |-> <<MaxB, 4, cfg.input_size>>, data |-> 1]
IsProbe == arg.shape = Probe.shape /\ arg0.data = Probe.data

\* line 139: return outputs
Return ==
    /\ pc = "return"
    /\ pc' = "done"
    /\ outcome' = "returned"
    /\ result' = Returned
    /\ memo' = IF training THEN memo
               ELSE IF IsProbe
               THEN IF memo.value = NoValue
                    THEN [memo EXCEPT !.value = ValueOf(Returned)]
                    ELSE memo
               ELSE IF memo.value # NoValue
               THEN [memo EXCEPT !.others = TRUE]
               ELSE memo
    /\ UNCHANGED <<cfg, training, bn, arg, arg0, x, loc, heap, err, trace, entry, sa>>

\* The caller lets go of the tensors of the finished call.
Release ==
    /\ pc = "done"
    /\ pc' = "idle"
    /\ arg' = NoTensor
    /\ arg0' = NoValue
    /\ x' = NoTensor
    /\ loc' = NoLocals
    /\ heap' = <<>>
    /\ outcome' = "none"
    /\ err' = ""
    /\ result' = NoTensor
    /\ trace' = <<>>
    /\ entry' = bn
    /\ UNCHANGED <<cfg, training, bn, memo, sa>>

Next ==
    \/ SetMode(TRUE)
    \/ SetMode(FALSE)
    \/ Call
    \/ PermuteIn
    \/ Conv1
    \/ BatchNorm("bn1", "relu1", "bn1", 1)
    \/ Relu("relu1", "pool1", "relu1")
    \/ MaxPool("pool1", "conv2", "pool1")
    \/ Conv2
    \/ BatchNorm("bn2", "relu2", "bn2", 2)
    \/ Relu("relu2", "pool2", "relu2")
    \/ MaxPool("pool2", "permute_out", "pool2")
    \/ PermuteOut
    \/ Lstm
    \/ AttnKey
    \/ AttnQuery
    \/ AttnValue
    \/ AttnScores
    \/ AttnScale
    \/ AttnSoftmax
    \/ AttnOut
    \/ Linear
    \/ Return
    \/ Release

Spec == Init /\ [][Next]_vars

\* ------------------------------------- SelfAttention on its own, in numbers
\* A tensor is a sequence (batch) of sequences (timesteps) of vectors. The
\* feature width is a square, so that math.sqrt(num_features) is an integer
\* and a scaled score is the fraction score / SqrtFeatures.
NumFeatures == SqrtFeatures * SqrtFeatures
Feat == 1..NumFeatures

RECURSIVE SumSeq(_)
SumSeq(q) == IF q = <<>> THEN 0 ELSE q[1] + SumSeq(Tail(q))

RECURSIVE MinSeq(_)
MinSeq(q) ==
    IF Len(q) = 1 THEN q[1]
    ELSE LET m == MinSeq(Tail(q)) IN IF q[1] < m THEN q[1] ELSE m

RECURSIVE Pow(_, _)
Pow(b, n) == IF n = 0 THEN 1 ELSE b * Pow(b, n - 1)

RECURSIVE Gcd(_, _)
Gcd(a, b) == IF b = 0 THEN a ELSE Gcd(b, a % b)

\* Fractions, added exactly.
Frac(n, d) == [num |-> n, den |-> d]
FracAdd(p, q) ==
    LET l == (p.den \div Gcd(p.den, q.den)) * q.den
    IN  Frac(p.num * (l \div p.den) + q.num * (l \div q.den), l)
RECURSIVE FracSum(_)
FracSum(q) == IF q = <<>> THEN Frac(0, 1) ELSE FracAdd(q[1], FracSum(Tail(q)))

Dot(u, v) == SumSeq([d \in Feat |-> u[d] * v[d]])

\* nn.Linear: y = W x + b at every timestep of every sample
LinearLayer(w, b, t) ==
    [n \in DOMAIN t |-> [i \in DOMAIN t[n] |->
        [o \in Feat |-> Dot(w[o], t[n][i]) + b[o]]]]

\* line 60: scores[n][i][j] = query_i . key_j
QueryKeyScores(query, key) ==
    [n \in DOMAIN query |-> [i \in DOMAIN query[n] |->
        [j \in DOMAIN key[n] |-> Dot(query[n][i], key[n][j])]]]

\* line 61: the divisor math.sqrt(float(self.num_features))
ScaleDivisor == SqrtFeatures

\* exp of a scaled score difference. e^(1/SqrtFeatures) is stood for by
\* ExpRoot, so exp(k / den) = ExpRoot^(k * SqrtFeatures / den) is an integer
\* for the divisors 1 and SqrtFeatures.
ExpFrac(k, den) == Pow(ExpRoot, k * (SqrtFeatures \div den))

\* Faulty variant: softmax over the query-timestep axis (dim=1).
SoftmaxDimQuery == 3 - 1

\* line 64: the axis softmax normalizes over: dim=-1 of a 3-axis tensor
SoftmaxDim == 3

\* The entries softmax normalizes together with entry (n, i, j).
Fibre(t, n, i, j) ==
    IF SoftmaxDim = 3 THEN [k \in DOMAIN t[n][i] |-> t[n][i][k]]
    ELSE IF SoftmaxDim = 2 THEN [k \in DOMAIN t[n] |-> t[n][k][j]]
    ELSE [k \in DOMAIN t |-> t[k][i][j]]

\* nn.functional.softmax of scores / den: exp(s) / sum over the fibre of
\* exp(s'), with numerator and denominator both multiplied by exp(-min) (the
\* library subtracts the fibre's maximum instead; the quotient is the same).
Softmax(scores, den) ==
    [n \in DOMAIN scores |-> [i \in DOMAIN scores[n] |->
        [j \in DOMAIN scores[n][i] |->
            LET f == Fibre(scores, n, i, j)
                m == MinSeq(f)
            IN  Frac(ExpFrac(scores[n][i][j] - m, den),
                     SumSeq([k \in DOMAIN f |-> ExpFrac(f[k] - m, den)]))]]]

\* line 66: outputs[n][i] = sum over j of weights[n][i][j] * value[n][j]
WeightedValues(weights, value) ==
    [n \in DOMAIN weights |-> [i \in DOMAIN weights[n] |->
        [d \in Feat |->
            FracSum([j \in DOMAIN weights[n][i] |->
                Frac(weights[n][i][j].num * value[n][j][d],
                     weights[n][i][j].den)])]]]

\* Weight matrices and biases a module may hold (lines 48-50 draw them at
\* random): the identity, its negation, a cyclic shift; a bias of 0 or of 1 on
\* the first feature.
WeightKinds == {"id", "neg", "shift"}
Weight(kind) ==
    [o \in Feat |-> [d \in Feat |->
        IF kind = "id" THEN (IF o = d THEN 1 ELSE 0)
        ELSE IF kind = "neg" THEN (IF o = d THEN -1 ELSE 0)
        ELSE (IF d = (o % NumFeatures) + 1 THEN 1 ELSE 0)]]
Bias(c) == [o \in Feat |-> IF o = 1 THEN c ELSE 0]

AttnParams ==
    [key_w : {"id", "shift"}, key_b : {0}, query_w : WeightKinds,
     query_b : {0, 1}, value_w : {"neg"}, value_b : {1}]

\* Inputs [B, T, num_features]: every timestep is zero or the first unit vector.
UnitOrZero(c) == [d \in Feat |-> IF d = 1 THEN c ELSE 0]
AttnInputs ==
    UNION {{[n \in 1..b |-> [i \in 1..t |-> UnitOrZero(c[n][i])]] :
                c \in [1..b -> [1..t -> {0, 1}]]} :
           b \in 1..MaxAttnB, t \in 1..MaxAttnT}

Empty == <<>>

\* A SelfAttention module is constructed and called on x; no LSTMModel takes
\* part, and the variables of one stay as constructed.
InitAttn ==
    /\ InitModel
    /\ cfg = [input_size |-> 1, output_size |-> 1]
    /\ \E p \in AttnParams, t \in AttnInputs :
          sa = [pc |-> "key", params |-> p, x |-> t, x0 |-> t, key_vecs |-> Empty,
                query_vecs |-> Empty, value_vecs |-> Empty, attn_scores |-> Empty,
                scores_den |-> 1, attn_weights |-> Empty, outputs |-> Empty,
                returned |-> Empty]

\* sa after a statement that assigns value to the local field
Assigned(next, field, value) == [sa EXCEPT !.pc = next, ![field] = value]

\* line 55: key_vecs = self.key_matrix(x)
SaKey ==
    /\ sa.pc = "key"
    /\ sa' = Assigned("query", "key_vecs",
                   LinearLayer(Weight(sa.params.key_w), Bias(sa.params.key_b), sa.x))
    /\ UNCHANGED modelVars

\* line 56: query_vecs = self.query_matrix(x)
SaQuery ==
    /\ sa.pc = "query"
    /\ sa' = Assigned("value", "query_vecs",
                   LinearLayer(Weight(sa.params.query_w), Bias(sa.params.query_b), sa.x))
    /\ UNCHANGED modelVars

\* line 57: value_vecs = self.value_matrix(x)
SaValue ==
    /\ sa.pc = "value"
    /\ sa' = Assigned("scores", "value_vecs",
                   LinearLayer(Weight(sa.params.value_w), Bias(sa.params.value_b), sa.x))
    /\ UNCHANGED modelVars

\* line 60: attn_scores = torch.matmul(query_vecs, key_vecs.permute(0, 2, 1))
SaScores ==
    /\ sa.pc = "scores"
    /\ sa' = Assigned("scale", "attn_scores",
                   QueryKeyScores(sa.query_vecs, sa.key_vecs))
    /\ UNCHANGED modelVars

\* line 61: attn_scores /= math.sqrt(float(self.num_features))
SaScale ==
    /\ sa.pc = "scale"
    /\ sa' = Assigned("softmax", "scores_den",
                   sa.scores_den * ScaleDivisor)
    /\ UNCHANGED modelVars

\* line 64: attn_weights = nn.functional.softmax(attn_scores, dim=-1)
SaSoftmax ==
    /\ sa.pc = "softmax"
    /\ sa' = Assigned("out", "attn_weights",
                   Softmax(sa.attn_scores, sa.scores_den))
    /\ UNCHANGED modelVars

\* line 66: outputs = torch.matmul(attn_weights, value_vecs)
SaOut ==
    /\ sa.pc = "out"
    /\ sa' = Assigned("return", "outputs",
                   WeightedValues(sa.attn_weights, sa.value_vecs))
    /\ UNCHANGED modelVars

\* line 68: return outputs, attn_weights
SaReturn ==
    /\ sa.pc = "return"
    /\ sa' = Assigned("done", "returned",
                   <<sa.outputs, sa.attn_weights>>)
    /\ UNCHANGED modelVars

NextAttn ==
    \/ SaKey
    \/ SaQuery
    \/ SaValue
    \/ SaScores
    \/ SaScale
    \/ SaSoftmax
    \/ SaOut
    \/ SaReturn

SpecAttn == InitAttn /\ [][NextAttn]_vars

\* ------------------------------------------------------------- claims
Ended == pc = "done"
EndedReturned == pc = "done" /\ outcome = "returned"
EndedRaised == pc = "done" /\ outcome = "raised"

StageOrder ==
    <<"permute", "conv_layer", "permute", "lstm_layer", "attention", "linear_layer">>
IsPrefix(s, t) == Len(s) <= Len(t) /\ SubSeq(t, 1, Len(s)) = s

\* C1 as stated: a call on [B, input_size, T], T divisible by 4, returns
\* [B, T/4, output_size].
C1_AsStated ==
    (Ended /\ arg.shape[2] = cfg.input_size /\ arg.shape[3] % 4 = 0)
        => /\ outcome = "returned"
           /\ result.shape = <<arg.shape[1], arg.shape[3] \div 4, cfg.output_size>>

\* C1 amended: a call on [B, T, input_size] (time before channels, which line
\* 126 swaps), T >= 4 divisible by 4, returns [B, T/4, output_size].
C1_ForwardShape ==
    (Ended /\ arg.shape[3] = cfg.input_size /\ arg.shape[2] % 4 = 0)
        => /\ outcome = "returned"
           /\ result.shape = <<arg.shape[1], arg.shape[2] \div 4, cfg.output_size>>

C1_Witness ==
    /\ EndedReturned
    /\ arg.shape = <<2, 8, cfg.input_size>>
    /\ result.shape = <<2, 2, cfg.output_size>>

\* TemporalCNN.forward has ended: it returned to line 128 or it raised.
CnnReturned == pc = "permute_out"
CnnEnded == loc.cnn_in # NoTensor /\ (CnnReturned \/ EndedRaised)
CnnB == loc.cnn_in.shape[1]
CnnT == loc.cnn_in.shape[3]

\* C2 as stated: on [B, C_in, T], C_in as configured, T >= 2, TemporalCNN.forward
\* returns [B, 128, floor(floor(T/2)/2)].
C2_AsStated ==
    (CnnEnded /\ loc.cnn_in.shape[2] = cfg.input_size /\ CnnT >= 2)
        => /\ CnnReturned
           /\ x.shape = <<CnnB, 128, (CnnT \div 2) \div 2>>

\* C2 amended: the same for T >= 4; and in every call each convolution keeps
\* the length and each pooling that returns replaces L by floor(L/2).
C2_CnnShape ==
    /\ (CnnEnded /\ loc.cnn_in.shape[2] = cfg.input_size /\ CnnT >= 4)
           => /\ CnnReturned
              /\ x.shape = <<CnnB, 128, (CnnT \div 2) \div 2>>
    /\ pc \in {"bn1", "relu1", "pool1"} => x.shape = <<CnnB, 64, CnnT>>
    /\ pc = "conv2" => x.shape = <<CnnB, 64, CnnT \div 2>>
    /\ pc \in {"bn2", "relu2", "pool2"} => x.shape = <<CnnB, 128, CnnT \div 2>>
    /\ CnnReturned => x.shape = <<CnnB, 128, (CnnT \div 2) \div 2>>

C2_Witness ==
    /\ CnnReturned
    /\ loc.cnn_in.shape = <<2, cfg.input_size, 7>>
    /\ x.shape = <<2, 128, 1>>

\* The shape of a 3-axis tensor given as nested sequences (T >= 1).
Shape3(t) == <<Len(t), Len(t[1]), Len(t[1][1])>>
SaB == Len(sa.x0)
SaT == Len(sa.x0[1])

\* C3: the attention weights returned for an input [B, T', D] have shape
\* [B, T', T'], every entry lies in [0, 1], and every row (n, i) sums to 1
\* over the key timesteps j.
C3_AttentionWeights ==
    sa.pc \in {"out", "return", "done"} =>
        LET w == sa.attn_weights IN
        /\ sa.scores_den = SqrtFeatures
        /\ Shape3(w) = <<SaB, SaT, SaT>>
        /\ \A n \in 1..SaB, i \in 1..SaT :
              /\ Len(w[n]) = SaT /\ Len(w[n][i]) = SaT
              /\ \A j \in 1..SaT :
                    /\ w[n][i][j].den > 0
                    /\ 0 <= w[n][i][j].num
                    /\ w[n][i][j].num <= w[n][i][j].den
              /\ FracSum(w[n][i]).num = FracSum(w[n][i]).den
        /\ sa.pc = "done" => sa.returned[2] = w

C3_Witness ==
    /\ sa.pc = "done"
    /\ Shape3(sa.x0) = <<2, 2, NumFeatures>>
    /\ Shape3(sa.returned[2]) = <<2, 2, 2>>
    /\ sa.returned[2][1][1][1] # sa.returned[2][1][1][2]
    /\ sa.returned[2][1][1][1].num < sa.returned[2][1][1][1].den
    /\ sa.returned[2][1][1] # sa.returned[2][1][2]

\* The running mean/variance of layer k were updated exactly once, with this
\* call's batch, since the call was entered.
UpdatedOnce(k) ==
    /\ bn[k].running = Append(entry[k].running, arg0.data)
    /\ bn[k].tracked = entry[k].tracked + 1

\* C4 as stated: every training-mode call updates the running statistics of
\* both normalization layers exactly once; every evaluation-mode call leaves
\* them unchanged.
C4_AsStated ==
    Ended => IF training THEN UpdatedOnce(1) /\ UpdatedOnce(2) ELSE bn = entry

\* C4 amended: every training-mode call that returns updates the running
\* statistics of both layers exactly once; a training-mode call that raises
\* has updated each layer at most once; an evaluation-mode call never changes
\* them.
C4_RunningStats ==
    /\ (EndedReturned /\ training) => UpdatedOnce(1) /\ UpdatedOnce(2)
    /\ (pc # "idle" /\ training) =>
           \A k \in 1..2 :
              /\ bn[k].running \in {entry[k].running,
                                    Append(entry[k].running, arg0.data)}
              /\ bn[k].tracked \in {entry[k].tracked, entry[k].tracked + 1}
    /\ (pc # "idle" /\ ~training) => bn = entry

C4_Witness ==
    /\ EndedReturned
    /\ training
    /\ entry = <<BnFresh, BnFresh>>
    /\ bn[1].running = <<arg0.data>>
    /\ bn[2].running = <<arg0.data>>

\* C5: an evaluation-mode call on an input returns the value an earlier
\* evaluation-mode call on that input returned, whatever evaluation-mode calls
\* on other inputs were made in between.
C5_EvalDeterminism ==
    (EndedReturned /\ ~training /\ IsProbe)
        => /\ ValueOf(result) = memo.value
           /\ result.shape = <<Probe.shape[1], Probe.shape[2] \div 4, cfg.output_size>>

C5_Witness ==
    /\ EndedReturned
    /\ ~training
    /\ IsProbe
    /\ memo.others
    /\ ValueOf(result) = memo.value

\* Output sample b was computed from input sample b alone.
SampleIndependent ==
    \A b \in 1..arg.shape[1] : ValueOf(result).deps[b] = {b}

\* C6 as stated: in every call output sample b depends on input sample b only.
C6_AsStated == EndedReturned => SampleIndependent

\* C6 amended: in every evaluation-mode call output sample b depends on input
\* sample b only.
C6_EvalBatchIndependence == (EndedReturned /\ ~training) => SampleIndependent

C6_Witness ==
    /\ EndedReturned
    /\ ~training
    /\ arg.shape[1] = 2
    /\ ValueOf(result).deps = <<{1}, {2}>>

\* C7: a call whose input channel count differs from input_size raises at the
\* first convolution; no later stage runs and nothing is returned.
C7_ChannelMismatch ==
    (arg # NoTensor /\ arg.shape[3] # cfg.input_size)
        => /\ pc \in {"permute_in", "conv1", "done"}
           /\ Ended => /\ outcome = "raised"
                       /\ err = "RuntimeError: expected input to have in_channels channels"
                       /\ result = NoTensor
                       /\ trace = <<"permute", "conv_layer">>

C7_Witness ==
    /\ EndedRaised
    /\ arg.shape[3] # cfg.input_size
    /\ result = NoTensor

\* C8: a call on a sequence of length 1 raises or returns an empty time
\* axis; it never returns an output with timesteps.
C8_LengthOne ==
    (Ended /\ arg.shape[2] = 1)
        => \/ outcome = "raised" /\ result = NoTensor
           \/ outcome = "returned" /\ result.shape[2] = 0

C8_Witness ==
    /\ EndedRaised
    /\ arg.shape[2] = 1
    /\ arg.shape[3] = cfg.input_size
    /\ err = "RuntimeError: max_pool1d() invalid computed output size"

ApplyAll(v, os) == [v EXCEPT !.ops = @ \o os]

\* The value returned is the linear projection of the attention output, with
\* nothing applied after it, and is none of the discarded tensors.
ReturnsLogits ==
    /\ ValueOf(result) = Apply(ValueOf(loc.attn_out), Op("linear_layer"))
    /\ ValueOf(loc.attn_out) =
           ApplyAll(ValueOf(loc.attn_in),
                    <<Op("query_vecs"), Op("matmul_query_key"),
                      Op("div_sqrt_features"), Op("softmax"),
                      Op("matmul_weights_value")>>)
    /\ result.sid \notin {loc.final_hidden.sid, loc.final_cell.sid,
                           loc.attn_weights.sid, loc.attn_out.sid}

C10_InputUntouched ==
    /\ arg # NoTensor => arg.sid = 0 /\ ValueOf(arg) = arg0
    /\ loc.attn_in # NoTensor =>
           /\ loc.attn_in.shape = <<x.shape[1], x.shape[2], LstmOutputDim>>
           /\ ValueOf(loc.attn_in) = Apply(ValueOf(x), Op("lstm_layer"))

C10_Witness ==
    /\ EndedReturned
    /\ ValueOf(arg) = arg0
    /\ ValueOf(loc.attn_scores).ops[Len(ValueOf(loc.attn_scores).ops)].op
           = "div_sqrt_features"
    /\ \E i \in 1..Len(ValueOf(result).ops) : ValueOf(result).ops[i].op = "relu2"

====
